---- MODULE Spec2Model ----
(***************************************************************************)
(* Verification model of pill-pal (MedTrack): the medication store, the    *)
(* useMedications / useReports / useAccessKeys client hooks, the weekly    *)
(* calendar, and the generate-report, access-keys and doctor-access edge   *)
(* functions.                                                              *)
(*                                                                         *)
(* Time: every instant is a whole number of seconds counted from the start *)
(* of model day 0, in one time zone (the client's local zone and UTC       *)
(* coincide).  The source works in milliseconds; the model drops the       *)
(* millisecond digits, so the end of a day, 23:59:59.999, is the instant   *)
(* DAY - 1 of that day and the divisor 1000*60*60*24 is DAY.               *)
(***************************************************************************)
EXTENDS Integers, Sequences, FiniteSets, TLC

----------------------------------------------------------------------------
(* Bounds of the model *)

MaxDay == 2          \* the clock runs over noon of the days 0..MaxDay
MaxPick == 3         \* custom report dates are day 0 or day MaxPick
MaxMeds == 1         \* rows of the medications table
MaxLogs == 1         \* rows of the medication_logs table
MaxDuration == 1     \* longest course, in days, offered by the add dialog
MaxHandlers == 2     \* doctor-access requests that may be under way at once

----------------------------------------------------------------------------
(* Program constants *)

DAY == 60 * 60 * 24

NOON == 12 * 60 * 60

NoDate == -1

WEEK == 7

MEDICATION_TYPES == {"one-time", "prescription", "as-needed"}

TIMES == {"Morning (8:00 AM)", "Night (9:00 PM)"}

PrevMonthDays == {28, 31}

Days == 0 .. MaxDay

Instants == {d * DAY + NOON : d \in Days}

----------------------------------------------------------------------------
(* State *)

VARIABLES
  now,               \* the wall clock (new Date(), SQL now())
  medications,       \* table public.medications of the signed-in user
  medication_logs,   \* table public.medication_logs of the signed-in user
  page,              \* the page shown: "dashboard", "reports" or "sharing"
  listMeds,          \* useMedications: medications (ids of the rows held)
  listExpired,       \* useMedications: expiredMedications (ids)
  listLogs,          \* useMedications: logs (indexes of the rows held)
  timers,            \* MedicationCard: the pending 400 ms timers of Take clicks
  loading,           \* useReports: loading
  reportData,        \* useReports: reportData, {} for null
  toast,             \* the last toast the reports hook raised, "" for none
  thrown,            \* what the last generateReport call threw, "" for none
  pc,                \* generate-report handler: "idle", "awaiting_ai", "done"
  request,           \* body of the request being served, {} when idle
  locals,            \* the handler's medications, logs and dataSummary
  aiResponse,        \* the handler's aiResponse: status and content, {} for none
  response,          \* the handler's last HTTP response, {} for none
  access_keys,       \* table public.access_keys of the patient
  report_access_logs, \* table public.report_access_logs
  keys,              \* useAccessKeys: keys (ids of the rows held)
  dpc,               \* doctor-access handler: "idle", "key_found", "logged", "done"
  doctorRequest,     \* body of the doctor-access request, {} when idle
  keyData,           \* the handler's keyData: the row its lookup read
  doctorResponse,    \* the handler's last HTTP response, {} for none
  report,            \* DoctorPortal: report, {} for null
  generatedKey,      \* GenerateKeyDialog: generatedKey, {} for null
  served,            \* doctor-access: the requests of other sessions under way
  doses,             \* takenDoses and expectedDoses about to be turned into a rate
  adherenceRate      \* the adherenceRate computed from doses, {} for none

vars == <<now, medications, medication_logs, page, listMeds, listExpired,
          listLogs, timers, loading, reportData, toast, thrown, pc, request,
          locals, aiResponse, response, access_keys, report_access_logs, keys,
          dpc, doctorRequest, keyData, doctorResponse, report, generatedKey,
          served, doses, adherenceRate>>

listVars == <<listMeds, listExpired, listLogs>>

storeVars == <<medications, medication_logs>>

hookVars == <<loading, reportData, toast, thrown>>

handlerVars == <<pc, request, locals, aiResponse, response>>

keyVars == <<access_keys, report_access_logs, keys>>

doctorVars == <<dpc, doctorRequest, keyData, doctorResponse, report>>

portalVars == <<keyVars, doctorVars, generatedKey, served>>

calcVars == <<doses, adherenceRate>>

----------------------------------------------------------------------------
(* Date arithmetic *)

\* Math.ceil(a / b) for a positive divisor
MathCeilDiv(a, b) == -((-a) \div b)

\* JavaScript numbers are IEEE 754 doubles: 53 significant binary digits,
\* every operation rounded to the nearest double, ties to the even one.  A
\* positive double is held here in limbs of 16 binary digits, as the record
\* [e, ip, f1, f2, f3, g] that stands for
\*   2^e * (ip + f1/LIMB + f2/LIMB^2 + f3/LIMB^3 + g/(16 * LIMB^3))
\* with ip the integer part and g a limb of 4 digits.
LIMB == 2 ^ 16

\* a / b scaled by a power of two into [1, 2): the scaled pair, the exponent
RECURSIVE Normalize(_, _, _)
Normalize(a, b, e) ==
  IF a >= 2 * b THEN Normalize(a, 2 * b, e + 1)
  ELSE IF a < b THEN Normalize(2 * a, b, e - 1)
  ELSE [a |-> a, b |-> b, e |-> e]

\* the double n / d for integers n > 0, d > 0: long division to 64 binary
\* places, the 52 places kept rounded on the 12 dropped and the remainder
DoubleDiv(n, d) ==
  LET s == Normalize(n, d, 0)
      t1 == (s.a - s.b) * LIMB
      t2 == (t1 % s.b) * LIMB
      t3 == (t2 % s.b) * LIMB
      t4 == (t3 % s.b) * LIMB
      f4 == t4 \div s.b
      kept == f4 \div 4096
      dropped == f4 % 4096
      up == /\ dropped >= 2048
            /\ \/ dropped > 2048
               \/ t4 % s.b # 0
               \/ kept % 2 = 1
      g == kept + (IF up THEN 1 ELSE 0)
      f3 == (t3 \div s.b) + (g \div 16)
      f2 == (t2 \div s.b) + (f3 \div LIMB)
      f1 == (t1 \div s.b) + (f2 \div LIMB)
  IN  [e |-> s.e, ip |-> 1 + (f1 \div LIMB), f1 |-> f1 % LIMB,
       f2 |-> f2 % LIMB, f3 |-> f3 % LIMB, g |-> g % 16]

\* the double q * 100: the exact product, which lies in [100, 200] * 2^e,
\* rounded to 53 significant digits (46 binary places below 128, else 45).
\* Of the result only [e, ip, f1] is kept: Math.round reads no more.
DoubleTimes100(q) ==
  LET t4 == q.g * 100
      t3 == q.f3 * 100 + (t4 \div 16)
      t2 == q.f2 * 100 + (t3 \div LIMB)
      t1 == q.f1 * 100 + (t2 \div LIMB)
      ip == q.ip * 100 + (t1 \div LIMB)
      unit == IF ip < 128 THEN 4 ELSE 8
      dropped == ((t3 % LIMB) % unit) * 16 + (t4 % 16)
      half == unit * 8
      up == \/ dropped > half
            \/ dropped = half /\ ((t3 % LIMB) \div unit) % 2 = 1
      d3 == (t3 % LIMB) - ((t3 % LIMB) % unit) + (IF up THEN unit ELSE 0)
      d2 == (t2 % LIMB) + (d3 \div LIMB)
      d1 == (t1 % LIMB) + (d2 \div LIMB)
  IN  [e |-> q.e, ip |-> ip + (d1 \div LIMB), f1 |-> d1 % LIMB]

\* Math.round(p): the integer nearest to the double p, a half going up.
\* twice == floor(2 * p), for exponents up to 15.
MathRound(p) ==
  LET s == p.e + 1
      twice == IF s <= 0 THEN p.ip \div (2 ^ (-s))
               ELSE p.ip * (2 ^ s) + (p.f1 \div (2 ^ (16 - s)))
  IN  (twice + 1) \div 2

\* Math.round((n / d) * 100) for integers n >= 0, d > 0, in doubles
MathRoundPct(n, d) ==
  IF n = 0 THEN 0 ELSE MathRound(DoubleTimes100(DoubleDiv(n, d)))

\* Date.setHours(0, 0, 0, 0)
StartOfDay(t) == (t \div DAY) * DAY

\* Date.setHours(23, 59, 59, 999)
EndOfDay(t) == StartOfDay(t) + DAY - 1

The(s) == CHOOSE x \in s : TRUE

RECURSIVE SumSeq(_)
SumSeq(s) == IF s = <<>> THEN 0 ELSE Head(s) + SumSeq(Tail(s))

Reverse(s) == [i \in 1 .. Len(s) |-> s[Len(s) + 1 - i]]

----------------------------------------------------------------------------
(* useMedications: the client's view of the store *)

MedIds == 1 .. Len(medications)

\* fetchMedications, first query: is_active and (end_date null or > now)
FetchActive(meds) ==
  {i \in 1 .. Len(meds) : /\ meds[i].is_active
                          /\ \/ meds[i].end_date = NoDate
                             \/ meds[i].end_date > now}

\* fetchMedications, second query: active prescriptions with end_date < now
FetchExpired(meds) ==
  {i \in 1 .. Len(meds) : /\ meds[i].is_active
                          /\ meds[i].medication_type = "prescription"
                          /\ meds[i].end_date # NoDate
                          /\ meds[i].end_date < now}

\* fetchTodayLogs applied to a log table: taken_at >= start of today
FetchTodayLogs(logs) ==
  {k \in 1 .. Len(logs) : logs[k].taken_at >= StartOfDay(now)}

\* isTakenToday(medicationId, time) over the logs the hook holds
isTakenToday(medicationId, time) ==
  \E k \in listLogs : /\ medication_logs[k].medication_id = medicationId
                      /\ medication_logs[k].scheduled_time = time
                      /\ medication_logs[k].status = "taken"

\* AddMedicationDialog.calculateEndDate
calculateEndDate(medicationType, startDate, durationDays) ==
  IF medicationType = "one-time" THEN startDate
  ELSE IF durationDays = NoDate THEN NoDate
  ELSE startDate + durationDays * DAY

----------------------------------------------------------------------------
(* Initial state: an empty store, the dashboard just mounted *)

\* useReports just mounted, no generate-report request under way
InitReports ==
  /\ loading = FALSE
  /\ reportData = {}
  /\ toast = ""
  /\ thrown = ""
  /\ pc = "idle"
  /\ request = {}
  /\ locals = {}
  /\ aiResponse = {}
  /\ response = {}

\* the instances of doctor-access that serve the other sessions
Handlers == 1 .. MaxHandlers

\* an instance with no request
IdleHandler ==
  [pc |-> "idle", accessKey |-> <<>>, period |-> "", keyData |-> {},
   response |-> {}]

\* no access key issued, the doctor portal idle
InitPortal ==
  /\ generatedKey = {}
  /\ served = [h \in Handlers |-> IdleHandler]
  /\ access_keys = <<>>
  /\ report_access_logs = <<>>
  /\ keys = {}
  /\ dpc = "idle"
  /\ doctorRequest = {}
  /\ keyData = {}
  /\ doctorResponse = {}
  /\ report = {}

\* no rate being computed
InitCalc ==
  /\ doses = {}
  /\ adherenceRate = {}

\* useMedications just mounted over an empty store, no Take click pending
InitDashboard ==
  /\ page = "dashboard"
  /\ listMeds = {}
  /\ listExpired = {}
  /\ listLogs = {}
  /\ timers = <<>>

Init ==
  /\ now = NOON
  /\ medications = <<>>
  /\ medication_logs = <<>>
  /\ InitDashboard
  /\ InitReports
  /\ InitPortal
  /\ InitCalc

----------------------------------------------------------------------------
(* The clock and navigation *)

\* Time passes.  A clock step is a day or more and a report request a matter
\* of seconds, so no step falls inside a request; a delivered report does not
\* change as time passes, so the clock is stepped with no report on screen.
Tick(t) ==
  /\ t > now
  /\ pc = "idle"
  /\ now' = t
  /\ UNCHANGED <<storeVars, page, listVars, hookVars, handlerVars,
                 timers, portalVars, calcVars>>

\* The user opens the dashboard: useMedications mounts and fetches both
\* lists and today's logs; the Reports page and its hook state are gone.
OpenDashboard ==
  /\ page = "reports"
  /\ pc # "awaiting_ai"
  /\ page' = "dashboard"
  /\ listMeds' = FetchActive(medications)
  /\ listExpired' = FetchExpired(medications)
  /\ listLogs' = FetchTodayLogs(medication_logs)
  /\ loading' = FALSE
  /\ reportData' = {}
  /\ toast' = ""
  /\ thrown' = ""
  /\ pc' = "idle"
  /\ request' = {}
  /\ locals' = {}
  /\ aiResponse' = {}
  /\ response' = {}
  /\ UNCHANGED <<now, storeVars,
                 timers, portalVars, calcVars>>

\* The user opens the Reports page: useReports mounts with no report.
OpenReports ==
  /\ page = "dashboard"
  /\ page' = "reports"
  /\ listMeds' = {}
  /\ listExpired' = {}
  /\ listLogs' = {}
  /\ UNCHANGED <<now, storeVars, hookVars, handlerVars,
                 timers, portalVars, calcVars>>

----------------------------------------------------------------------------
(* useMedications: operations on the store *)

\* AddMedicationDialog.handleSubmit and useMedications.addMedication
addMedication(medicationType, selectedTimes, startDate, durationDays) ==
  /\ page = "dashboard"
  /\ selectedTimes # {}
  /\ medications' = Append(medications,
        [id |-> Len(medications) + 1,
         medication_type |-> medicationType,
         time_of_day |-> selectedTimes,
         start_date |-> startDate,
         end_date |-> calculateEndDate(medicationType, startDate,
                                       durationDays),
         is_active |-> TRUE,
         updated_at |-> now])
  /\ listMeds' = FetchActive(medications')
  /\ listExpired' = FetchExpired(medications')
  /\ UNCHANGED <<now, medication_logs, page, listLogs, hookVars, handlerVars,
                 timers, portalVars, calcVars>>

\* MedicationCard.handleMarkTaken, Dashboard.handleMarkTaken and
\* useMedications.markAsTaken, followed by its fetchTodayLogs
markAsTaken(medicationId, scheduledTime) ==
  /\ page = "dashboard"
  /\ medicationId \in listMeds
  /\ scheduledTime \in medications[medicationId].time_of_day
  /\ ~isTakenToday(medicationId, scheduledTime)
  /\ medication_logs' = Append(medication_logs,
        [medication_id |-> medicationId,
         taken_at |-> now,
         scheduled_time |-> scheduledTime,
         status |-> "taken"])
  /\ listLogs' = FetchTodayLogs(medication_logs')
  /\ UNCHANGED <<now, medications, page, listMeds, listExpired, hookVars,
                 handlerVars,
                 timers, portalVars, calcVars>>

\* delete().eq('id', id) in the place of the update
HardDelete(meds, id) == SelectSeq(meds, LAMBDA m : m.id # id)

\* update({ is_active: false }).eq('id', id); the trigger
\* update_medications_updated_at stamps the row it updates
SetInactive(meds, id) ==
  [meds EXCEPT ![id].is_active = FALSE, ![id].updated_at = now]

\* useMedications.deleteMedication, reached from a card of the active list
deleteMedication(id) ==
  /\ page = "dashboard"
  /\ id \in listMeds
  /\ medications' = SetInactive(medications, id)
  /\ listMeds' = FetchActive(medications')
  /\ listExpired' = FetchExpired(medications')
  /\ UNCHANGED <<now, medication_logs, page, listLogs, hookVars, handlerVars,
                 timers, portalVars, calcVars>>

\* useMedications.archiveMedication, reached from the expired section
archiveMedication(id) ==
  /\ page = "dashboard"
  /\ id \in listExpired
  /\ medications' = SetInactive(medications, id)
  /\ listMeds' = FetchActive(medications')
  /\ listExpired' = FetchExpired(medications')
  /\ UNCHANGED <<now, medication_logs, page, listLogs, hookVars, handlerVars,
                 timers, portalVars, calcVars>>

----------------------------------------------------------------------------
(* generate-report edge function: the statistics *)

\* med.time_of_day?.length || 1
SlotCount(med) ==
  IF Cardinality(med.time_of_day) = 0 THEN 1 ELSE Cardinality(med.time_of_day)

\* periodDays
PeriodDays(startDate, endDate) == MathCeilDiv(endDate - startDate, DAY) + 1

\* the medications query: .eq('is_active', true)
SelectMedications == SelectSeq(medications, LAMBDA m : m.is_active)

\* the logs query: taken_at within [startDate, endDate], newest first
SelectLogs(startDate, endDate) ==
  Reverse(SelectSeq(medication_logs,
                    LAMBDA l : l.taken_at >= startDate /\ l.taken_at <= endDate))

\* medExpected with the number of days left out
MedExpectedSlotsOnly(med, periodDays) == SlotCount(med)

\* medExpected, also the summand of expectedDoses
MedExpected(med, periodDays) == SlotCount(med) * periodDays

\* expectedDoses
ExpectedDoses(meds, periodDays) ==
  SumSeq([i \in 1 .. Len(meds) |-> MedExpected(meds[i], periodDays)])

\* takenDoses
TakenDoses(logs) == Len(SelectSeq(logs, LAMBDA l : l.status = "taken"))

\* medTaken with the filter on the status left out
MedTakenAnyStatus(med, logs) ==
  Len(SelectSeq(logs, LAMBDA l : l.medication_id = med.id))

\* medTaken: the taken logs grouped under med.id
MedTaken(med, logs) ==
  Len(SelectSeq(logs, LAMBDA l : l.medication_id = med.id /\ l.status = "taken"))

\* adherenceRate and the per-medication adherence
Adherence(taken, expected) ==
  IF expected > 0 THEN MathRoundPct(taken, expected) ELSE 0

\* medicationStats; the display strings name, dosage and frequency are
\* stood for by the id of the medication they belong to
MedicationStats(meds, logs, periodDays) ==
  [i \in 1 .. Len(meds) |->
     [id |-> meds[i].id,
      expected |-> MedExpected(meds[i], periodDays),
      taken |-> MedTaken(meds[i], logs),
      adherence |-> Adherence(MedTaken(meds[i], logs),
                              MedExpected(meds[i], periodDays))]]

\* dataSummary
DataSummary(req, meds, logs) ==
  LET periodDays == PeriodDays(req.startDate, req.endDate)
      expectedDoses == ExpectedDoses(meds, periodDays)
      takenDoses == TakenDoses(logs)
  IN  [period |-> req.period,
       periodDays |-> periodDays,
       startDate |-> req.startDate,
       endDate |-> req.endDate,
       totalMedications |-> Len(meds),
       expectedDoses |-> expectedDoses,
       takenDoses |-> takenDoses,
       missedDoses |-> expectedDoses - takenDoses,
       adherenceRate |-> Adherence(takenDoses, expectedDoses),
       medicationStats |-> MedicationStats(meds, logs, periodDays)]

----------------------------------------------------------------------------
(* generate-report edge function: the responses *)

ErrorResponse(status, message) ==
  [status |-> status, error |-> message, data |-> {}]

\* the catch block: status 500 with the message of the error
CatchResponse(message) == ErrorResponse(500, message)

\* aiInsights
AiInsights(content) ==
  IF content = "" THEN "Unable to generate insights at this time." ELSE content

\* the success response: dataSummary, the logs and aiInsights
SuccessResponse(summary, logs, content) ==
  [status |-> 200, error |-> "",
   data |-> {[summary |-> summary, logs |-> logs,
              aiInsights |-> AiInsights(content)]}]

\* what the handler answers once the AI gateway has answered
AiResponse(aiStatus, content, summary, logs) ==
  IF aiStatus \in 200 .. 299
  THEN SuccessResponse(summary, logs, content)
  ELSE IF aiStatus = 429
  THEN ErrorResponse(429, "Rate limit exceeded. Please try again later.")
  ELSE IF aiStatus = 402
  THEN ErrorResponse(402, "Payment required. Please add credits to continue.")
  ELSE CatchResponse("Failed to generate AI insights")

----------------------------------------------------------------------------
(* useReports.generateReport *)

\* endDate before setHours
HookEndDate(customEndDate) ==
  IF customEndDate # NoDate THEN customEndDate ELSE now

\* startDate before setHours
HookStartDate(period, customStartDate, customEndDate, monthDays) ==
  IF customStartDate # NoDate THEN customStartDate
  ELSE IF period = "weekly" THEN HookEndDate(customEndDate) - WEEK * DAY
  ELSE HookEndDate(customEndDate) - monthDays * DAY

\* the body of the functions.invoke call
InvokeBody(period, customStartDate, customEndDate, monthDays) ==
  [period |-> period,
   startDate |-> StartOfDay(HookStartDate(period, customStartDate,
                                          customEndDate, monthDays)),
   endDate |-> EndOfDay(HookEndDate(customEndDate))]

\* What functions.invoke hands back and the hook throws: a non-2xx status
\* comes back as an error of the client library (the response travels in
\* its context, which nothing in the repository reads), a 2xx body with an
\* error field is thrown as new Error(data.error); "" when nothing is thrown
HookThrown(r) ==
  IF r.status \notin 200 .. 299 THEN "FunctionsHttpError"
  ELSE IF r.error # "" THEN r.error
  ELSE ""

\* the catch block raises one toast for whatever was thrown
HookToast(r) ==
  IF HookThrown(r) # "" THEN "Failed to generate report" ELSE ""

\* the hook on receiving the response r
HookReceive(r) ==
  /\ thrown' = HookThrown(r)
  /\ toast' = HookToast(r)
  /\ reportData' = IF HookThrown(r) # "" THEN reportData ELSE r.data
  /\ loading' = FALSE

\* generateReport up to the narrative call, for a signed-in user whose
\* queries succeed.  apiKey tells whether LOVABLE_API_KEY is configured.
generateReport(period, customStartDate, customEndDate, monthDays, apiKey) ==
  /\ page = "reports"
  /\ ~loading
  /\ pc = "idle"
  /\ LET req == InvokeBody(period, customStartDate, customEndDate, monthDays)
         meds == SelectMedications
         logs == SelectLogs(req.startDate, req.endDate)
         summary == DataSummary(req, meds, logs)
     IN  IF ~apiKey
         THEN   /\ request' = {req}
                /\ locals' = {[medications |-> meds, logs |-> logs,
                               dataSummary |-> summary]}
                /\ aiResponse' = {}
                /\ response' =
                     {CatchResponse("LOVABLE_API_KEY is not configured")}
                /\ pc' = "done"
                /\ HookReceive(
                     CatchResponse("LOVABLE_API_KEY is not configured"))
         ELSE   /\ request' = {req}
                /\ locals' = {[medications |-> meds, logs |-> logs,
                               dataSummary |-> summary]}
                /\ aiResponse' = {}
                /\ response' = {}
                /\ pc' = "awaiting_ai"
                /\ loading' = TRUE
                /\ UNCHANGED <<reportData, toast, thrown>>
  /\ UNCHANGED <<now, storeVars, page, listVars,
                 timers, portalVars, calcVars>>

\* The AI gateway answers with a status and, on success, a content; the
\* handler answers the hook, which stores the report or raises its toast.
aiRespond(aiStatus, content) ==
  /\ pc = "awaiting_ai"
  /\ LET l == The(locals)
         r == AiResponse(aiStatus, content, l.dataSummary, l.logs)
     IN  /\ response' = {r}
         /\ HookReceive(r)
  /\ aiResponse' = {[status |-> aiStatus,
                      content |-> IF aiStatus \in 200 .. 299 THEN content
                                  ELSE ""]}
  /\ pc' = "done"
  /\ UNCHANGED <<now, storeVars, page, listVars, request, locals,
                 timers, portalVars, calcVars>>

----------------------------------------------------------------------------
(* The system *)

PickedDates == {0, MaxPick * DAY}

SlotChoices == {{"Morning (8:00 AM)"}, TIMES}

Periods == {"weekly", "monthly"}

Durations == {NoDate} \cup (1 .. MaxDuration)

AiStatuses == {200, 402, 429, 500}

Next ==
  \/ \E t \in Instants : Tick(t)
  \/ OpenDashboard
  \/ OpenReports
  \/ \E ty \in MEDICATION_TYPES, ts \in SlotChoices, du \in Durations :
        /\ Len(medications) < MaxMeds
        /\ addMedication(ty, ts, now, du)
  \/ \E id \in MedIds, ts \in TIMES :
        /\ Len(medication_logs) < MaxLogs
        /\ markAsTaken(id, ts)
  \/ \E id \in MedIds : deleteMedication(id)
  \/ \E id \in MedIds : archiveMedication(id)
  \/ \E pe \in Periods, cs \in {NoDate} \cup PickedDates,
        ce \in {NoDate} \cup PickedDates, md \in PrevMonthDays,
        key \in BOOLEAN :
        generateReport(pe, cs, ce, md, key)
  \/ \E st \in AiStatuses, co \in {"", "insights"} : aiRespond(st, co)

Spec == Init /\ [][Next]_vars

----------------------------------------------------------------------------
(* The adherence rate as a function of the two dose counts *)

MaxTaken == 23       \* largest takenDoses the rate is computed for

MaxExpected == 40    \* largest expectedDoses the rate is computed for

\* the handlers at the point where takenDoses and expectedDoses are counted
InitRound ==
  /\ now = NOON
  /\ medications = <<>>
  /\ medication_logs = <<>>
  /\ InitDashboard
  /\ InitReports
  /\ InitPortal
  /\ \E t \in 0 .. MaxTaken, e \in 0 .. MaxExpected :
        doses = {[takenDoses |-> t, expectedDoses |-> e]}
  /\ adherenceRate = {}

\* const adherenceRate = expectedDoses > 0 ? Math.round(...) : 0
computeAdherenceRate ==
  /\ adherenceRate = {}
  /\ adherenceRate' =
       {Adherence(The(doses).takenDoses, The(doses).expectedDoses)}
  /\ UNCHANGED <<now, storeVars, page, listVars, timers, hookVars,
                 handlerVars, portalVars, doses>>

NextRound == computeAdherenceRate

SpecRound == InitRound /\ [][NextRound]_vars

----------------------------------------------------------------------------
(* Reports over the rows the two tables admit *)

\* the clock of these reports: noon, two days after the last pickable day
StatNow == (MaxPick + 2) * DAY + NOON

\* start_date and end_date of a row: both null (the columns are nullable),
\* or a course from 00:00 of day 0 to 00:00 of day MaxPick
StatDates == {<<NoDate, NoDate>>, <<0, MaxPick * DAY>>}

\* taken_at of a row: the last second of day MaxPick - 1, the first and the
\* last second of day MaxPick, the first second of day MaxPick + 1
StatLogTimes ==
  {MaxPick * DAY - 1, MaxPick * DAY, (MaxPick + 1) * DAY - 1,
   (MaxPick + 1) * DAY}

\* CHECK (status IN ('taken', 'missed', 'skipped'))
LOG_STATUSES == {"taken", "missed", "skipped"}

\* the active rows a medications table of n rows may hold
StatMedications(n) ==
  {[i \in 1 .. n |->
      [id |-> i,
       medication_type |-> ty[i],
       time_of_day |-> ts[i],
       start_date |-> da[i][1],
       end_date |-> da[i][2],
       is_active |-> TRUE,
       updated_at |-> 0]] :
     ty \in [1 .. n -> MEDICATION_TYPES], ts \in [1 .. n -> SlotChoices],
     da \in [1 .. n -> StatDates]}

\* the rows a medication_logs table of n rows may hold over meds
\* (medication_id REFERENCES medications)
StatLogs(meds, n) ==
  {[k \in 1 .. n |->
      [medication_id |-> id[k],
       taken_at |-> at[k],
       scheduled_time |-> "Morning (8:00 AM)",
       status |-> st[k]]] :
     id \in [1 .. n -> 1 .. Len(meds)], at \in [1 .. n -> StatLogTimes],
     st \in [1 .. n -> LOG_STATUSES]}

\* the Reports page open over some store
InitStats ==
  /\ now = StatNow
  /\ \E n \in 0 .. MaxMeds : medications \in StatMedications(n)
  /\ \E n \in 0 .. MaxLogs : medication_logs \in StatLogs(medications, n)
  /\ page = "reports"
  /\ listMeds = {}
  /\ listExpired = {}
  /\ listLogs = {}
  /\ timers = <<>>
  /\ InitReports
  /\ InitPortal
  /\ InitCalc

NextStats ==
  \/ \E cs \in PickedDates, ce \in PickedDates, md \in PrevMonthDays :
        generateReport("weekly", cs, ce, md, TRUE)
  \/ aiRespond(200, "insights")

SpecStats == InitStats /\ [][NextStats]_vars

----------------------------------------------------------------------------
(* Reports over a store that holds several taken logs of one day *)

MaxDupLogs == 3      \* rows of medication_logs, all taken on day MaxPick

\* taken_at of these rows: the first and the last second of day MaxPick
DupLogTimes == {MaxPick * DAY, (MaxPick + 1) * DAY - 1}

\* the rows markAsTaken has inserted over meds, n of them; nothing in the
\* table keeps two of them from naming the same medication, slot and day
DupLogs(meds, n) ==
  {[k \in 1 .. n |->
      [medication_id |-> id[k],
       taken_at |-> at[k],
       scheduled_time |-> "Morning (8:00 AM)",
       status |-> "taken"]] :
     id \in [1 .. n -> 1 .. Len(meds)], at \in [1 .. n -> DupLogTimes]}

\* the Reports page open over such a store
InitDup ==
  /\ now = StatNow
  /\ \E n \in 0 .. MaxMeds : medications \in StatMedications(n)
  /\ \E n \in 0 .. MaxDupLogs : medication_logs \in DupLogs(medications, n)
  /\ page = "reports"
  /\ listMeds = {}
  /\ listExpired = {}
  /\ listLogs = {}
  /\ timers = <<>>
  /\ InitReports
  /\ InitPortal
  /\ InitCalc

SpecDup == InitDup /\ [][NextStats]_vars

----------------------------------------------------------------------------
(* A report request whose narrative call is left unanswered *)

\* the clock while a request is under way: StatNow and the day after
WaitInstants == {StatNow, StatNow + DAY}

\* Time passes while the handler awaits the fetch to the AI gateway: the
\* fetch carries no signal and no timer is set, so nothing else happens.
Wait(t) ==
  /\ pc = "awaiting_ai"
  /\ t > now
  /\ now' = t
  /\ UNCHANGED <<storeVars, page, listVars, timers, hookVars, handlerVars,
                 portalVars, calcVars>>

NextWait ==
  \/ NextStats
  \/ \E t \in WaitInstants : Wait(t)

\* The clock keeps running; the gateway is under no obligation to answer.
SpecWait ==
  /\ InitStats
  /\ [][NextWait]_vars
  /\ WF_vars(\E t \in WaitInstants : Wait(t))

----------------------------------------------------------------------------
(* The dashboard with the Take button in its steps *)

\* MedicationCard.handleMarkTaken: a click on Take.  The button is disabled
\* only once isTaken holds, that is once the logs held by the hook show the
\* dose; the click starts a timer of 400 ms.
handleMarkTaken(medicationId, scheduledTime) ==
  /\ page = "dashboard"
  /\ medicationId \in listMeds
  /\ scheduledTime \in medications[medicationId].time_of_day
  /\ ~isTakenToday(medicationId, scheduledTime)
  /\ timers' = Append(timers, [medicationId |-> medicationId,
                               scheduledTime |-> scheduledTime])
  /\ UNCHANGED <<now, storeVars, page, listVars, hookVars, handlerVars,
                 portalVars, calcVars>>

\* The oldest timer fires: Dashboard.handleMarkTaken calls
\* useMedications.markAsTaken, which inserts the log and then refetches
\* today's logs.
onMarkTaken ==
  /\ timers # <<>>
  /\ medication_logs' = Append(medication_logs,
        [medication_id |-> Head(timers).medicationId,
         taken_at |-> now,
         scheduled_time |-> Head(timers).scheduledTime,
         status |-> "taken"])
  /\ listLogs' = FetchTodayLogs(medication_logs')
  /\ timers' = Tail(timers)
  /\ UNCHANGED <<now, medications, page, listMeds, listExpired, hookVars,
                 handlerVars, portalVars, calcVars>>

MaxTakes == 2        \* Take clicks, pending or stored as logs

\* The clock and the navigation step while no timer is pending: a timer
\* lasts 400 ms.
NextTake ==
  \/ \E t \in Instants : timers = <<>> /\ Tick(t)
  \/ timers = <<>> /\ OpenReports
  \/ timers = <<>> /\ OpenDashboard
  \/ \E du \in Durations :
        /\ Len(medications) < MaxMeds
        /\ addMedication("prescription", {"Morning (8:00 AM)"}, now, du)
  \/ \E id \in MedIds, ts \in TIMES :
        /\ Len(medication_logs) + Len(timers) < MaxTakes
        /\ handleMarkTaken(id, ts)
  \/ onMarkTaken
  \/ \E id \in MedIds : deleteMedication(id)
  \/ \E id \in MedIds : archiveMedication(id)

SpecTake == Init /\ [][NextTake]_vars

----------------------------------------------------------------------------
(* Renewing an expired prescription, and the weekly calendar *)

\* the first two of the durations the renew dialog offers
DURATION_OPTIONS == {7, 14}

\* WeeklyCalendarView.isScheduledForDay, day an instant of the day asked
isScheduledForDay(medication, day) ==
  LET dayStart == StartOfDay(day)
  IN  IF medication.start_date = NoDate THEN TRUE
      ELSE IF dayStart < StartOfDay(medication.start_date) THEN FALSE
      ELSE IF /\ medication.end_date # NoDate
              /\ StartOfDay(medication.end_date) < dayStart THEN FALSE
      ELSE TRUE

\* ExpiredMedicationsSection.handleRenew and useMedications.renewMedication,
\* reached from a card of the expired list: start_date and end_date are
\* written (duration_days, which nothing reads back, is not kept in the
\* rows), the trigger stamps the row, fetchMedications runs
renewMedication(id, durationDays) ==
  /\ page = "dashboard"
  /\ id \in listExpired
  /\ medications' = [medications EXCEPT
                       ![id].start_date = now,
                       ![id].end_date = now + durationDays * DAY,
                       ![id].updated_at = now]
  /\ listMeds' = FetchActive(medications')
  /\ listExpired' = FetchExpired(medications')
  /\ UNCHANGED <<now, medication_logs, page, listLogs, hookVars, handlerVars,
                 timers, portalVars, calcVars>>

NextRenew ==
  \/ \E t \in Instants : Tick(t)
  \/ OpenReports
  \/ OpenDashboard
  \/ \E ty \in MEDICATION_TYPES, ts \in SlotChoices, du \in Durations :
        /\ Len(medications) < MaxMeds
        /\ addMedication(ty, ts, now, du)
  \/ \E id \in MedIds, du \in DURATION_OPTIONS : renewMedication(id, du)
  \/ \E id \in MedIds : archiveMedication(id)

SpecRenew == Init /\ [][NextRenew]_vars

----------------------------------------------------------------------------
(* Access keys: useAccessKeys and the access-keys edge function.  A key is  *)
(* a string of KeyLength characters, a character a number.  A row that was *)
(* deleted stays in the sequence access_keys with deleted = TRUE, so that  *)
(* the id of a row is its position; no query sees such a row.              *)

KeyLength == 5       \* characters of a key (the program draws 32)

PreviewLength == 4   \* characters of key_preview (rawKey.slice(-4))

\* generateSecureKey: the n-th key it draws, different from those before;
\* n = 0 gives a string it never drew
RawKey(n) == [i \in 1 .. KeyLength |-> IF i = 1 THEN n ELSE 0]

\* hashKey with the key itself for its digest
PlainKey(key) == key

\* the mark of a digest: a number that is no character of a key
SHA256 == -1

\* hashKey: the SHA-256 digest of a key, a string that is longer than a
\* key and that no key equals; different keys have different digests.  The
\* digest is written as the mark followed by what was hashed.
hashKey(key) == <<SHA256>> \o key

\* rawKey.slice(-4)
KeyPreview(key) == SubSeq(key, Len(key) - PreviewLength + 1, Len(key))

\* the lookup with the filter on the status left out
KeyLookupAnyStatus(keyTable, accessKey) ==
  {i \in 1 .. Len(keyTable) : /\ ~keyTable[i].deleted
                               /\ keyTable[i].key_hash = hashKey(accessKey)}

\* .eq('key_hash', keyHash).eq('status', 'active'): the rows found
KeyLookup(keyTable, accessKey) ==
  {i \in 1 .. Len(keyTable) : /\ ~keyTable[i].deleted
                               /\ keyTable[i].key_hash = hashKey(accessKey)
                               /\ keyTable[i].status = "active"}

\* fetchKeys: select('*')
FetchKeys(keyTable) == {i \in 1 .. Len(keyTable) : ~keyTable[i].deleted}

\* the data of the 'generate' response: the only place the raw key is in
GenerateData(row, rawKey) ==
  [id |-> row.id, key |-> rawKey, key_preview |-> row.key_preview]

\* GenerateKeyDialog.handleGenerate, useAccessKeys.generateKey and the
\* 'generate' action of access-keys: a fresh random key is hashed, the hash
\* and the preview are stored as an active row, the raw key is returned,
\* fetchKeys runs and the dialog shows the key
generateKey ==
  /\ page = "sharing"
  /\ generatedKey = {}
  /\ LET rawKey == RawKey(Len(access_keys) + 1)
         row == [id |-> Len(access_keys) + 1,
                 key_hash |-> hashKey(rawKey),
                 key_preview |-> KeyPreview(rawKey),
                 status |-> "active",
                 use_count |-> 0,
                 deleted |-> FALSE]
     IN  /\ access_keys' = Append(access_keys, row)
         /\ generatedKey' = {GenerateData(row, rawKey).key}
  /\ keys' = FetchKeys(access_keys')
  /\ UNCHANGED <<now, storeVars, page, listVars, timers, hookVars,
                 handlerVars, report_access_logs, doctorVars, served,
                 calcVars>>

\* GenerateKeyDialog.handleClose
handleClose ==
  /\ page = "sharing"
  /\ generatedKey # {}
  /\ generatedKey' = {}
  /\ UNCHANGED <<now, storeVars, page, listVars, timers, hookVars,
                 handlerVars, keyVars, doctorVars, served, calcVars>>

\* useAccessKeys.revokeKey, reached from the card of an active key
revokeKey(keyId) ==
  /\ page = "sharing"
  /\ keyId \in keys
  /\ access_keys[keyId].status = "active"
  /\ access_keys' = [access_keys EXCEPT ![keyId].status = "revoked"]
  /\ keys' = FetchKeys(access_keys')
  /\ UNCHANGED <<now, storeVars, page, listVars, timers, hookVars,
                 handlerVars, report_access_logs, doctorVars, generatedKey,
                 served, calcVars>>

----------------------------------------------------------------------------
(* doctor-access edge function and DoctorPortal.handleSearch *)

\* the days setMonth(getMonth() - 1) goes back from any day of a month that
\* follows a February of a common year; the model's days lie in such a month
FebruaryDays == 28

\* startDate and endDate, from the clock t of the handler
DoctorWindow(period, t) ==
  [startDate |-> StartOfDay(IF period = "monthly" THEN t - FebruaryDays * DAY
                            ELSE t - WEEK * DAY),
   endDate |-> EndOfDay(t)]

\* trackableMedications
TrackableMedications(meds) ==
  SelectSeq(meds, LAMBDA m : m.medication_type = "prescription")

\* takenDoses: the taken logs of the trackable medications
DoctorTakenDoses(logs, trackable) ==
  Len(SelectSeq(logs,
        LAMBDA l : /\ l.status = "taken"
                   /\ \E i \in 1 .. Len(trackable) :
                         trackable[i].id = l.medication_id))

\* the data of the success response, computed at the clock t
DoctorData(period, t, meds, logs) ==
  LET window == DoctorWindow(period, t)
      periodDays == PeriodDays(window.startDate, window.endDate)
      trackable == TrackableMedications(meds)
      expectedDoses == ExpectedDoses(trackable, periodDays)
      takenDoses == DoctorTakenDoses(logs, trackable)
  IN  [period |-> period,
       periodDays |-> periodDays,
       startDate |-> window.startDate,
       endDate |-> window.endDate,
       totalMedications |-> Len(meds),
       expectedDoses |-> expectedDoses,
       takenDoses |-> takenDoses,
       adherenceRate |-> Adherence(takenDoses, expectedDoses),
       medications |-> [i \in 1 .. Len(meds) |-> meds[i].medication_type],
       logs |-> logs]

\* DoctorPortal.handleSearch by a signed-in doctor, and doctor-access up to
\* its key lookup: .single() finds exactly one active row or answers 403
handleSearch(accessKey, period) ==
  /\ dpc \in {"idle", "done"}
  /\ doctorRequest' = {[accessKey |-> accessKey, period |-> period]}
  /\ report' = {}
  /\ LET found == KeyLookup(access_keys, accessKey)
     IN  IF Cardinality(found) # 1
         THEN /\ keyData' = {}
              /\ doctorResponse' =
                   {ErrorResponse(403, "Invalid or revoked access key")}
              /\ dpc' = "done"
         ELSE /\ keyData' = {access_keys[The(found)]}
              /\ dpc' = "key_found"
              /\ UNCHANGED doctorResponse
  /\ UNCHANGED <<now, storeVars, page, listVars, timers, hookVars,
                 handlerVars, keyVars, generatedKey, served, calcVars>>

\* doctor-access: the key usage update and the report_access_logs insert
doctorRecordUse ==
  /\ dpc = "key_found"
  /\ access_keys' =
       [access_keys EXCEPT ![The(keyData).id].use_count =
                             The(keyData).use_count + 1]
  /\ report_access_logs' = Append(report_access_logs,
        [access_key_id |-> The(keyData).id,
         report_type |-> The(doctorRequest).period,
         request |-> 0])
  /\ dpc' = "logged"
  /\ UNCHANGED <<now, storeVars, page, listVars, timers, hookVars,
                 handlerVars, keys, doctorRequest, keyData, doctorResponse,
                 report, generatedKey, served, calcVars>>

\* doctor-access from the medications query to the success response, and
\* handleSearch storing the report
doctorReport ==
  /\ dpc = "logged"
  /\ LET period == The(doctorRequest).period
         window == DoctorWindow(period, now)
         data == DoctorData(period, now, SelectMedications,
                            SelectLogs(window.startDate, window.endDate))
     IN  /\ doctorResponse' = {[status |-> 200, error |-> "", data |-> {data}]}
         /\ report' = {data}
  /\ dpc' = "done"
  /\ UNCHANGED <<now, storeVars, page, listVars, timers, hookVars,
                 handlerVars, keyVars, doctorRequest, keyData, generatedKey,
                 served, calcVars>>

MaxKeys == 1         \* rows of the access_keys table

MaxAccesses == 2     \* rows of the report_access_logs table

\* the keys a doctor may present: RawKey(0) is a string never issued
PresentedKeys == {RawKey(n) : n \in 0 .. MaxKeys}

\* the clock of the portal: StatNow, and a week and a day later
DoctorInstants == {StatNow, StatNow + (WEEK + 1) * DAY}

\* the active rows a medications table of n rows may hold, one slot each
DoctorMedications(n) ==
  {[i \in 1 .. n |->
      [id |-> i,
       medication_type |-> ty[i],
       time_of_day |-> {"Morning (8:00 AM)"},
       start_date |-> 0,
       end_date |-> NoDate,
       is_active |-> TRUE,
       updated_at |-> 0]] :
     ty \in [1 .. n -> MEDICATION_TYPES]}

\* the rows a medication_logs table of n rows may hold over meds: doses
\* taken at 00:00 of day MaxPick
DoctorLogs(meds, n) ==
  {[k \in 1 .. n |->
      [medication_id |-> id[k],
       taken_at |-> MaxPick * DAY,
       scheduled_time |-> "Morning (8:00 AM)",
       status |-> "taken"]] :
     id \in [1 .. n -> 1 .. Len(meds)]}

\* the patient on the Sharing page over some store, the portal idle
InitDoctor ==
  /\ now = StatNow
  /\ \E n \in 0 .. MaxMeds : medications \in DoctorMedications(n)
  /\ \E n \in 0 .. MaxLogs : medication_logs \in DoctorLogs(medications, n)
  /\ page = "sharing"
  /\ listMeds = {}
  /\ listExpired = {}
  /\ listLogs = {}
  /\ timers = <<>>
  /\ InitReports
  /\ InitPortal
  /\ InitCalc

NextDoctor ==
  \/ \E t \in DoctorInstants : Tick(t)
  \/ Len(access_keys) < MaxKeys /\ generateKey
  \/ handleClose
  \/ \E id \in 1 .. Len(access_keys) : revokeKey(id)
  \/ \E k \in PresentedKeys, pe \in Periods :
        /\ Len(report_access_logs) < MaxAccesses
        /\ handleSearch(k, pe)
  \/ doctorRecordUse
  \/ doctorReport

SpecDoctor == InitDoctor /\ [][NextDoctor]_vars

----------------------------------------------------------------------------
(* doctor-access serving several requests at once, while the patient       *)
(* manages the keys                                                        *)

\* access_key_id of an audit row whose key was deleted (ON DELETE SET NULL)
NoKey == 0

\* useAccessKeys.deleteKey: the row is deleted, the audit rows that
\* reference it keep their place with access_key_id set to null, fetchKeys
deleteKey(keyId) ==
  /\ page = "sharing"
  /\ keyId \in keys
  /\ ~access_keys[keyId].deleted
  /\ access_keys' = [access_keys EXCEPT ![keyId].deleted = TRUE]
  /\ report_access_logs' =
       [k \in 1 .. Len(report_access_logs) |->
          IF report_access_logs[k].access_key_id = keyId
          THEN [report_access_logs[k] EXCEPT !.access_key_id = NoKey]
          ELSE report_access_logs[k]]
  /\ keys' = FetchKeys(access_keys')
  /\ UNCHANGED <<now, storeVars, page, listVars, timers, hookVars,
                 handlerVars, doctorVars, generatedKey, served, calcVars>>

\* doctor-access, instance h, for a signed-in doctor: the body is read and
\* the key looked up; .single() finds exactly one active row or the
\* instance answers 403
serveLookup(h, accessKey, period) ==
  /\ served[h].pc = "idle"
  /\ LET found == KeyLookup(access_keys, accessKey)
     IN  served' = [served EXCEPT ![h] =
           IF Cardinality(found) # 1
           THEN [pc |-> "done", accessKey |-> accessKey, period |-> period,
                 keyData |-> {},
                 response |->
                   {ErrorResponse(403, "Invalid or revoked access key")}]
           ELSE [pc |-> "key_found", accessKey |-> accessKey,
                 period |-> period,
                 keyData |-> {access_keys[The(found)]},
                 response |-> {}]]
  /\ UNCHANGED <<now, storeVars, page, listVars, timers, hookVars,
                 handlerVars, keyVars, doctorVars, generatedKey, calcVars>>

\* instance h: update({ last_used_at, use_count: keyData.use_count + 1 })
\* .eq('id', keyData.id); the result of the call is not looked at
serveUpdateUsage(h) ==
  /\ served[h].pc = "key_found"
  /\ LET id == The(served[h].keyData).id
     IN  access_keys' =
           IF access_keys[id].deleted THEN access_keys
           ELSE [access_keys EXCEPT ![id].use_count =
                                      The(served[h].keyData).use_count + 1]
  /\ served' = [served EXCEPT ![h].pc = "usage_updated"]
  /\ UNCHANGED <<now, storeVars, page, listVars, timers, hookVars,
                 handlerVars, report_access_logs, keys, doctorVars,
                 generatedKey, calcVars>>

\* instance h: the insert into report_access_logs; access_key_id
\* REFERENCES access_keys(id), so the insert fails when the key row is
\* gone; the result of the call is not looked at
serveLogAccess(h) ==
  /\ served[h].pc = "usage_updated"
  /\ LET id == The(served[h].keyData).id
     IN  report_access_logs' =
           IF access_keys[id].deleted THEN report_access_logs
           ELSE Append(report_access_logs,
                       [access_key_id |-> id,
                        report_type |-> served[h].period,
                        request |-> h])
  /\ served' = [served EXCEPT ![h].pc = "logged"]
  /\ UNCHANGED <<now, storeVars, page, listVars, timers, hookVars,
                 handlerVars, access_keys, keys, doctorVars, generatedKey,
                 calcVars>>

\* instance h: from the medications query to the success response
serveRespond(h) ==
  /\ served[h].pc = "logged"
  /\ LET period == served[h].period
         window == DoctorWindow(period, now)
         data == DoctorData(period, now, SelectMedications,
                            SelectLogs(window.startDate, window.endDate))
     IN  served' = [served EXCEPT
           ![h].pc = "done",
           ![h].response = {[status |-> 200, error |-> "", data |-> {data}]}]
  /\ UNCHANGED <<now, storeVars, page, listVars, timers, hookVars,
                 handlerVars, keyVars, doctorVars, generatedKey, calcVars>>

\* the patient on the Sharing page, no key issued, every instance idle
InitConc ==
  /\ now = StatNow
  /\ medications = <<>>
  /\ medication_logs = <<>>
  /\ page = "sharing"
  /\ listMeds = {}
  /\ listExpired = {}
  /\ listLogs = {}
  /\ timers = <<>>
  /\ InitReports
  /\ InitPortal
  /\ InitCalc

NextConc ==
  \/ Len(access_keys) < MaxKeys /\ generateKey
  \/ handleClose
  \/ \E id \in 1 .. Len(access_keys) : revokeKey(id)
  \/ \E id \in 1 .. Len(access_keys) : deleteKey(id)
  \/ \E h \in Handlers, k \in PresentedKeys :
        serveLookup(h, k, "weekly")
  \/ \E h \in Handlers : serveUpdateUsage(h)
  \/ \E h \in Handlers : serveLogAccess(h)
  \/ \E h \in Handlers : serveRespond(h)

SpecConc == InitConc /\ [][NextConc]_vars

----------------------------------------------------------------------------
(* What the specification of the report says, for the claims below *)

\* a report has reached the client
Delivered == reportData # {}

\* the numeric summary of the delivered report
Summary == The(reportData).summary

\* the medication set and the window the delivered report was computed from
ReportMeds == The(locals).medications

Window == The(request)

Max(a, b) == IF a >= b THEN a ELSE b

Min(a, b) == IF a <= b THEN a ELSE b

\* the inclusive day count of the closed interval [from, to]
InclusiveDays(from, to) == ((to - from) \div DAY) + 1

\* overlapDays of section 4.1: the days of the medication's
\* [activeFrom, activeUntil] that lie in the window
OverlapDays(med, window) ==
  LET overlapStart == IF med.start_date = NoDate THEN window.startDate
                      ELSE Max(med.start_date, window.startDate)
      overlapEnd == IF med.end_date = NoDate THEN window.endDate
                    ELSE Min(med.end_date, window.endDate)
  IN  IF overlapStart > overlapEnd THEN 0
      ELSE InclusiveDays(overlapStart, overlapEnd)

\* the sum of f over the medications of the report that satisfy P
SumWhere(P(_), f(_)) ==
  SumSeq([i \in 1 .. Len(ReportMeds) |-> IF P(i) THEN f(i) ELSE 0])

IsType(i, type) == ReportMeds[i].medication_type = type

StatExpected(i) == Summary.medicationStats[i].expected

StatTaken(i) == Summary.medicationStats[i].taken

----------------------------------------------------------------------------
(* Claims *)

\* C1: in every report the aggregate expectedDoses and takenDoses are sums
\* over the prescription medications only; one-time and as-needed
\* medications and their taken logs contribute nothing.
C1_AggregatesCountPrescriptionsOnly ==
  Delivered =>
    /\ Summary.expectedDoses =
         SumWhere(LAMBDA i : IsType(i, "prescription"), StatExpected)
    /\ Summary.takenDoses =
         SumWhere(LAMBDA i : IsType(i, "prescription"), StatTaken)

\* C2: for every prescription medication of a report, expected doses are
\* max(1, number of slots) times the inclusive number of days on which the
\* medication's active interval overlaps the window.
C2_ExpectedIsSlotsTimesOverlapDays ==
  Delivered =>
    \A i \in 1 .. Len(ReportMeds) :
      IsType(i, "prescription") =>
        StatExpected(i) =
          Max(1, Cardinality(ReportMeds[i].time_of_day))
            * OverlapDays(ReportMeds[i], Window)

\* C3: a medication that starts strictly after the end of the window, or
\* ends strictly before its start, contributes 0 expected doses.
C3_NoOverlapNoExpectedDoses ==
  Delivered =>
    \A i \in 1 .. Len(ReportMeds) :
      (\/ ReportMeds[i].start_date > Window.endDate
       \/ /\ ReportMeds[i].end_date # NoDate
          /\ ReportMeds[i].end_date < Window.startDate)
        => StatExpected(i) = 0

\* C4: periodDays is the inclusive calendar-day count of the window,
\* floor((end - start) in days) + 1.
C4_PeriodDaysIsInclusiveDayCount ==
  (Delivered /\ Window.startDate <= Window.endDate) =>
    Summary.periodDays = InclusiveDays(Window.startDate, Window.endDate)

\* C5: however the narrative step fails, the request that computed the
\* statistics answers with the numeric summary, never with an error alone.
C5_NarrativeFailureKeepsSummary ==
  (pc = "done" /\ locals # {}) =>
    /\ The(response).data # {}
    /\ The(The(response).data).summary = The(locals).dataSummary

\* C6: every one-time medication of a report has exactly 1 expected dose.
C6_OneTimeExpectsOneDose ==
  Delivered =>
    \A i \in 1 .. Len(ReportMeds) :
      IsType(i, "one-time") => StatExpected(i) = 1

\* C7: logs of medications outside the medication set of the report are
\* left out: the aggregate takenDoses is the sum of the per-medication
\* taken counts.
C7_TakenDosesOnlyOfReportedMedications ==
  Delivered =>
    Summary.takenDoses = SumWhere(LAMBDA i : TRUE, StatTaken)

\* C8: a request whose window has start > end is rejected and produces no
\* summary; no summary has periodDays <= 0 or negative expectedDoses.
C8_MalformedWindowRejected ==
  /\ (pc = "done" /\ Window.startDate > Window.endDate) =>
       /\ The(response).status \notin 200 .. 299
       /\ The(response).data = {}
  /\ Delivered =>
       /\ Summary.periodDays >= 1
       /\ Summary.expectedDoses >= 0

\* C9: with zero medications the report has totalMedications = 0,
\* expectedDoses = 0, takenDoses = 0 and adherenceRate = 0, whatever logs
\* lie in the window.
C9_NoMedicationsAllZero ==
  (Delivered /\ Len(ReportMeds) = 0) =>
    /\ Summary.totalMedications = 0
    /\ Summary.expectedDoses = 0
    /\ Summary.takenDoses = 0
    /\ Summary.adherenceRate = 0

\* the failure class of a status of the narrative call
FailureClass(status) ==
  IF status = 429 THEN "RateLimited"
  ELSE IF status = 402 THEN "PaymentRequired"
  ELSE "UpstreamError"

\* what the caller of generateReport gets when the narrative call answers
\* with the given status
CallerSees(status) ==
  LET r == AiResponse(status, "", The(locals).dataSummary, The(locals).logs)
  IN  <<HookThrown(r), HookToast(r)>>

\* C10: a narrative failure reaches the caller as an error kind that no
\* other failure class produces, and a 2xx answer with a content yields
\* that content as the insight text.
C10_FailureClassesStayDistinct ==
  (pc = "done" /\ aiResponse # {}) =>
    LET ai == The(aiResponse)
    IN  IF ai.status \in 200 .. 299
        THEN ai.content # "" =>
               /\ Delivered
               /\ The(reportData).aiInsights = ai.content
        ELSE /\ thrown # ""
             /\ \A other \in AiStatuses \ (200 .. 299) :
                  FailureClass(other) # FailureClass(ai.status)
                    => CallerSees(other) # <<thrown, toast>>

\* round(n / d * 100) to the nearest integer, a half going up, exactly
RoundHalfUp(n, d) == (200 * n + d) \div (2 * d)

StatAdherence(i) == Summary.medicationStats[i].adherence

\* C11: the per-medication adherence of a prescription is
\* expected > 0 ? round(taken / expected * 100) : 0; a one-time or as-needed
\* medication reports its taken count and no adherence number.
C11_AdherenceOnlyForPrescriptions ==
  Delivered =>
    \A i \in 1 .. Len(ReportMeds) :
      IF IsType(i, "prescription")
      THEN StatAdherence(i) =
             IF StatExpected(i) > 0
             THEN RoundHalfUp(StatTaken(i), StatExpected(i))
             ELSE 0
      ELSE StatAdherence(i) \notin Int

\* C12: the adherence rate is takenDoses / expectedDoses * 100 rounded half-up
\* to the nearest integer when expectedDoses > 0, and 0 when expectedDoses
\* = 0, for all non-negative integer dose counts.
C12_AdherenceRateRoundsHalfUp ==
  adherenceRate # {} =>
    The(adherenceRate) =
      IF The(doses).expectedDoses > 0
      THEN RoundHalfUp(The(doses).takenDoses, The(doses).expectedDoses)
      ELSE 0

\* the rows of medication_logs that a report over window counts for the
\* medication id: status taken, taken_at within the closed window
CountedLogs(id, window) ==
  {k \in 1 .. Len(medication_logs) :
     /\ medication_logs[k].medication_id = id
     /\ medication_logs[k].status = "taken"
     /\ medication_logs[k].taken_at >= window.startDate
     /\ medication_logs[k].taken_at <= window.endDate}

\* C13: the taken count of every medication of a report is the number of
\* its logs with status taken and taken_at in [window.start, window.end],
\* both ends included; missed and skipped logs and logs outside the window
\* are not counted, and a medication with no such log has taken = 0.
C13_TakenCountsTakenLogsInWindow ==
  Delivered =>
    \A i \in 1 .. Len(ReportMeds) :
      StatTaken(i) = Cardinality(CountedLogs(ReportMeds[i].id, Window))

\* C13 witness: a delivered report counts a taken log whose taken_at is the
\* very end of the window.
C13_Witness ==
  /\ Delivered
  /\ \E i \in 1 .. Len(ReportMeds), k \in 1 .. Len(medication_logs) :
        /\ medication_logs[k].medication_id = ReportMeds[i].id
        /\ medication_logs[k].status = "taken"
        /\ medication_logs[k].taken_at = Window.endDate
        /\ StatTaken(i) = 1

\* the numbers of a doctor-access report
DoctorNumbers(data) ==
  <<data.periodDays, data.totalMedications, data.expectedDoses,
    data.takenDoses, data.adherenceRate>>

\* C14: a report generated again from the same request over the same
\* medications and logs has the same numbers as the one before: the result
\* depends on nothing but what the caller supplies, the clock not being
\* part of it.  (Under SpecDoctor the two tables never change.)
C14_SameRequestSameNumbers ==
  [][(/\ dpc = "logged"
      /\ dpc' = "done"
      /\ doctorResponse # {}
      /\ The(doctorResponse).data # {}
      /\ The(The(doctorResponse).data).period = The(doctorRequest).period)
       => DoctorNumbers(The(The(doctorResponse').data)) =
            DoctorNumbers(The(The(doctorResponse).data))]_vars

\* C15: in a report over a well-formed window, a prescription with one slot
\* whose end_date is exactly the start of the window overlaps it on one day
\* and so has expected = 1, not 0 and not the length of the window.
C15_EndingOnWindowStartExpectsOne ==
  (Delivered /\ Window.startDate <= Window.endDate) =>
    \A i \in 1 .. Len(ReportMeds) :
      (/\ IsType(i, "prescription")
       /\ Cardinality(ReportMeds[i].time_of_day) = 1
       /\ ReportMeds[i].end_date = Window.startDate)
        => /\ OverlapDays(ReportMeds[i], Window) = 1
           /\ StatExpected(i) = 1

\* C16: for every medication with neither start_date nor end_date, the
\* number of days its expected doses are computed from is the periodDays of
\* the report: expected = slots * periodDays.
C16_OngoingUsesPeriodDays ==
  Delivered =>
    \A i \in 1 .. Len(ReportMeds) :
      (ReportMeds[i].start_date = NoDate /\ ReportMeds[i].end_date = NoDate)
        => StatExpected(i) = SlotCount(ReportMeds[i]) * Summary.periodDays

\* C16 witness: a delivered report over a well-formed window of more than
\* one day holds a medication with neither date.
C16_Witness ==
  /\ Delivered
  /\ Summary.periodDays > 1
  /\ \E i \in 1 .. Len(ReportMeds) :
        /\ ReportMeds[i].start_date = NoDate
        /\ ReportMeds[i].end_date = NoDate
        /\ StatExpected(i) = SlotCount(ReportMeds[i]) * Summary.periodDays

\* C17: the narrative call has a timeout: a request that awaits the
\* text-generation service always comes to an end, answering with the
\* numeric summary, even if the service never responds.
C17_AwaitingRequestCompletes ==
  (pc = "awaiting_ai") ~> (pc = "done" /\ The(response).data # {})

\* the key was issued and has been revoked
KeyRevoked(accessKey) ==
  \E i \in 1 .. Len(access_keys) :
    /\ access_keys[i].key_hash = hashKey(accessKey)
    /\ access_keys[i].status = "revoked"

\* C18: every doctor-access request that presents a key after its
\* revocation has completed is answered 403 'Invalid or revoked access key'
\* and brings the portal no patient data.
C18_RevokedKeyIsRejected ==
  [][\A k \in PresentedKeys, pe \in Periods :
       (KeyRevoked(k) /\ handleSearch(k, pe)) =>
         /\ dpc' = "done"
         /\ The(doctorResponse').status = 403
         /\ The(doctorResponse').error = "Invalid or revoked access key"
         /\ The(doctorResponse').data = {}
         /\ report' = {}]_vars

\* C18 witness: a key that had been used for a report has been revoked and
\* the request presenting it afterwards was answered 403 with no data.
C18_Witness ==
  /\ dpc = "done"
  /\ doctorRequest # {}
  /\ KeyRevoked(The(doctorRequest).accessKey)
  /\ \E i \in 1 .. Len(access_keys) :
        /\ access_keys[i].key_hash = hashKey(The(doctorRequest).accessKey)
        /\ access_keys[i].use_count >= 1
  /\ The(doctorResponse).status = 403
  /\ report = {}

\* the calendar day of an instant
DayOf(t) == t \div DAY

\* C19: a dose is logged once: no two taken logs are for the same
\* medication, the same slot and the same day, however the Take clicks and
\* the inserts and refetches they start interleave.
C19_OneTakenLogPerDose ==
  \A j \in 1 .. Len(medication_logs), k \in 1 .. Len(medication_logs) :
    (/\ j # k
     /\ medication_logs[j].status = "taken"
     /\ medication_logs[k].status = "taken"
     /\ medication_logs[j].medication_id = medication_logs[k].medication_id
     /\ medication_logs[j].scheduled_time = medication_logs[k].scheduled_time)
      => DayOf(medication_logs[j].taken_at) # DayOf(medication_logs[k].taken_at)

\* a step of deleteMedication or archiveMedication on the row id
SoftDeleteStep(id) == deleteMedication(id) \/ archiveMedication(id)

\* C20 as stated: archiveMedication and deleteMedication change nothing in
\* the store but the is_active flag of the medication.
C20_SoftDeleteChangesOnlyIsActive ==
  [][\A id \in MedIds :
       SoftDeleteStep(id) =>
         /\ medications' = [medications EXCEPT ![id].is_active = FALSE]
         /\ medication_logs' = medication_logs]_vars

\* C20 amended: archiveMedication and deleteMedication keep every row of
\* both tables; in the medication's row they change the is_active flag and
\* the updated_at stamp that the table's trigger maintains, and nothing
\* else; every other medication and every log stays as it was.
C20_SoftDeleteKeepsRowsAndLogs ==
  [][\A id \in MedIds :
       SoftDeleteStep(id) =>
         /\ Len(medications') = Len(medications)
         /\ medications' =
              [medications EXCEPT ![id].is_active = FALSE,
                                  ![id].updated_at = medications'[id].updated_at]
         /\ medication_logs' = medication_logs]_vars

\* C20 witness: a medication has been deactivated on a later day than it
\* was added, and a log that references it is still in the store.
C20_Witness ==
  \E id \in MedIds, k \in 1 .. Len(medication_logs) :
    /\ ~medications[id].is_active
    /\ medications[id].updated_at > medications[id].start_date
    /\ medication_logs[k].medication_id = id


\* C23: in every delivered report the aggregate adherenceRate and the
\* adherence of every medication lie between 0 and 100, whatever logs the
\* store holds, several taken logs of one medication, slot and day included.
C23_AdherenceWithinZeroAndHundred ==
  Delivered =>
    /\ Summary.adherenceRate \in 0 .. 100
    /\ \A i \in 1 .. Len(Summary.medicationStats) :
          StatAdherence(i) \in 0 .. 100

\* C24: in every delivered report over a window that does not end before
\* it starts, missedDoses is not negative, that is, takenDoses does not
\* exceed expectedDoses.
C24_MissedDosesNotNegative ==
  (Delivered /\ Window.startDate <= Window.endDate) =>
    /\ Summary.missedDoses >= 0
    /\ Summary.takenDoses <= Summary.expectedDoses


\* C28: a weekly report requested with no custom dates covers 7 days: the
\* periodDays the handler computes for it is 7, and its expectedDoses are
\* the slots of the reported medications times 7.
C28_DefaultWeeklyCoversSevenDays ==
  [][\A md \in PrevMonthDays, key \in BOOLEAN :
       generateReport("weekly", NoDate, NoDate, md, key) =>
         LET l == The(locals')
         IN  /\ l.dataSummary.periodDays = WEEK
             /\ l.dataSummary.expectedDoses =
                  SumSeq([i \in 1 .. Len(l.medications) |->
                            SlotCount(l.medications[i]) * WEEK])]_vars


\* C27: when fetchMedications has run on the mount of the dashboard, every
\* medication whose is_active is true is in exactly one of the two lists
\* it produced, the active list or the expired list, whatever its type and
\* its end_date.
C27_ActiveRowInExactlyOneList ==
  [][OpenDashboard =>
       \A i \in 1 .. Len(medications') :
         medications'[i].is_active =>
           (i \in listMeds') # (i \in listExpired')]_vars


\* no doctor-access instance is between its key lookup and its response
Quiet == \A h \in Handlers : served[h].pc \in {"idle", "done"}

\* the requests that were granted with the key of row id
Granted(id) ==
  {h \in Handlers : /\ served[h].pc = "done"
                    /\ served[h].keyData # {}
                    /\ The(served[h].keyData).id = id}

\* the audit rows of the key of row id
AuditRows(id) ==
  {k \in 1 .. Len(report_access_logs) :
     report_access_logs[k].access_key_id = id}

\* C25: once the requests under way have completed, the use_count of every
\* access key is the number of requests granted with it and the number of
\* its report_access_logs rows, also when the requests ran at once.
C25_UseCountCountsGrantedRequests ==
  Quiet =>
    \A id \in FetchKeys(access_keys) :
      /\ access_keys[id].use_count = Cardinality(Granted(id))
      /\ access_keys[id].use_count = Cardinality(AuditRows(id))

\* C26: a doctor-access instance that answers with patient data has stored
\* its report_access_logs row before.
C26_DataOnlyAfterAuditRow ==
  \A h \in Handlers :
    (served[h].response # {} /\ The(served[h].response).data # {}) =>
      \E k \in 1 .. Len(report_access_logs) :
        report_access_logs[k].request = h


\* the raw keys generateKey has drawn so far
IssuedKeys == {RawKey(n) : n \in 1 .. Len(access_keys)}

\* a row of access_keys holds the digest and the preview of its key and
\* holds no raw key
RowHidesKeys(row) ==
  /\ row.key_hash = hashKey(RawKey(row.id))
  /\ row.key_preview = KeyPreview(RawKey(row.id))
  /\ \A rk \in IssuedKeys : row.key_hash # rk /\ row.key_preview # rk

\* the names under which a response would carry a key
KeyFields == {"key", "accessKey", "rawKey"}

\* neither the store, nor the rows a doctor-access instance holds, nor a
\* doctor-access response carries a raw key
NoRawKeyKept ==
  /\ \A i \in 1 .. Len(access_keys) : RowHidesKeys(access_keys[i])
  /\ \A k \in 1 .. Len(report_access_logs) :
        DOMAIN report_access_logs[k] \cap KeyFields = {}
  /\ \A h \in Handlers :
        /\ \A row \in served[h].keyData : RowHidesKeys(row)
        /\ \A r \in served[h].response :
              /\ DOMAIN r \cap KeyFields = {}
              /\ \A d \in r.data : DOMAIN d \cap KeyFields = {}

\* C21: the raw key reaches the client once, in the answer to 'generate',
\* where the dialog shows it; the store keeps its digest and its preview
\* only, and listing, doctor access, revoking and deleting neither return
\* nor show a raw key.
C21_RawKeyOnlyInGenerateResponse ==
  [][/\ NoRawKeyKept'
     /\ (generatedKey' # generatedKey /\ generatedKey' # {}) =>
          /\ Len(access_keys') = Len(access_keys) + 1
          /\ generatedKey' = {RawKey(Len(access_keys'))}
          /\ generatedKey' \cap IssuedKeys = {}]_vars

\* C21 witness: a key was generated and its dialog closed, a doctor was
\* answered with data under it, and the key has since been revoked or
\* deleted.
C21_Witness ==
  /\ generatedKey = {}
  /\ \E h \in Handlers :
        /\ served[h].pc = "done"
        /\ \E r \in served[h].response : r.data # {}
        /\ \E row \in served[h].keyData :
              \/ access_keys[row.id].status = "revoked"
              \/ access_keys[row.id].deleted


\* the calendar days, as instants, from the day before t to the day after
\* the n-th day that follows the day of t
DaysAround(t, n) ==
  {StartOfDay(t) + k * DAY : k \in -1 .. n + 1}

\* C22: after renewMedication(id, N) the prescription is scheduled in the
\* weekly calendar on the N calendar days that start today and on no other
\* day.
C22_RenewedForExactlyNDays ==
  [][\A id \in MedIds, du \in DURATION_OPTIONS :
       renewMedication(id, du) =>
         {d \in DaysAround(now, du) : isScheduledForDay(medications'[id], d)}
           = {StartOfDay(now) + k * DAY : k \in 0 .. du - 1}]_vars

====
